---- MODULE Spec2Model ----
(***************************************************************************)
(* Model of torch/_inductor/bisect_helper.py: the BisectionManager that    *)
(* localises a failing backend, subsystem and guarded call index by        *)
(* repeatedly running a predicate fn() and persisting its search state in  *)
(* files under the cache directory.                                        *)
(*                                                                         *)
(* Environment overrides (TORCH_BISECT_BACKEND, TORCH_BISECT_SUBSYSTEM,    *)
(* TORCH_BISECT_MAX) are taken to be unset: get_env_val returns None.      *)
(***************************************************************************)
EXTENDS Integers, Sequences, FiniteSets, TLC

VARIABLES
  BACKENDS,                 \* ordered backend -> subsystems configuration
  bisect_status,            \* bisect_status.txt: the Global Cursor
  run_state,                \* <backend>/<subsystem>_run_state.txt files
  bisect_range,             \* <backend>/<subsystem>_bisect_range.txt files
  subsystem_call_counter,   \* in-memory Counter keyed by subsystem name
  call_counter_debug_info,  \* keys of the in-memory debug info dict
  bisection_enabled,        \* BisectionManager.bisection_enabled
  bisection_enabled_orig,   \* value captured by do_bisect's DisableBisect
  cli_interface,            \* do_bisect's cli_interface argument
  pc,                       \* position of the running process
  curr_backend,             \* do_bisect local
  curr_subsystem,           \* do_bisect local
  pb_subsystem,             \* perform_bisection's curr_subsystem
  pb_run_state,             \* perform_bisection's run_state local
  command,                  \* sys.argv[1] of the running command
  ret,                      \* outcome of the last do_bisect / command
  pred,                     \* kind of predicate driving fn()
  ncalls,                   \* guarded calls the workload makes per probe
  culprit,                  \* culprit of the deterministic predicate
  decisions,                \* guard decisions of the current probe
  last_probe,               \* the probe most recently judged
  probe_tick,               \* flips each time a probe is judged
  fn_count,                 \* predicate invocations of this invocation
  blres,                    \* results of the backend-level probes
  snap,                     \* persisted store as of the last judged probe
  interrupted,              \* a kill happened since the last judged probe
  bisect_probes,            \* bisect probes judged for the active subsystem
  guard_call,               \* the guard call applied to a drawn store
  end_after_start           \* the command before this end command was start

vars == << BACKENDS, bisect_status, run_state, bisect_range,
           subsystem_call_counter, call_counter_debug_info,
           bisection_enabled, bisection_enabled_orig, cli_interface, pc,
           curr_backend, curr_subsystem, pb_subsystem, pb_run_state,
           command, ret, pred, ncalls, culprit, decisions, last_probe,
           probe_tick, fn_count, blres, snap, interrupted,
           bisect_probes, guard_call, end_after_start >>

----------------------------------------------------------------------------
(* Bounds *)

MaxCalls == 3          \* guarded calls per probe, arbitrary predicate
MaxCulpritCalls == 7   \* guarded calls per probe, deterministic predicate
MaxFnCount == 2        \* cap of the per-invocation predicate count
MaxBisectProbes == 5   \* cap of the count of bisect probes

----------------------------------------------------------------------------
(* Configurations *)

SourceBACKENDS ==
  << [name |-> "eager", subs |-> << >>],
     [name |-> "aot_eager", subs |-> << >>],
     [name |-> "aot_eager_decomp_partition", subs |-> << "decomposition" >>],
     [name |-> "inductor", subs |-> << "post_grad_passes", "lowerings" >>] >>

ExampleBACKENDS ==
  << [name |-> "A", subs |-> << >>],
     [name |-> "B", subs |-> << "s1", "s2" >>] >>

Configurations == { SourceBACKENDS, ExampleBACKENDS }

BackendIndex(b) == CHOOSE i \in 1..Len(BACKENDS) : BACKENDS[i].name = b

BackendNames == { BACKENDS[i].name : i \in 1..Len(BACKENDS) }

SubsystemsOf(b) == BACKENDS[BackendIndex(b)].subs

Range(seq) == { seq[i] : i \in 1..Len(seq) }

ListIndex(seq, x) == CHOOSE i \in 1..Len(seq) : seq[i] = x

Keys == { << b, s >> : b \in BackendNames, s \in
            UNION { Range(BACKENDS[i].subs) : i \in 1..Len(BACKENDS) } }

ConfiguredKeys == { k \in Keys : k[2] \in Range(SubsystemsOf(k[1])) }

----------------------------------------------------------------------------
(* Persistent store: a record of the three kinds of files *)

EmptyMap == [k \in {} |-> 0]

NoStatus == [exists |-> FALSE, backend |-> "", subsystem |-> ""]

EmptyStore == [status |-> NoStatus, run_state |-> EmptyMap, range |-> EmptyMap]

Store == [status |-> bisect_status, run_state |-> run_state,
          range |-> bisect_range]

MapPut(m, k, v) == [x \in DOMAIN m \cup {k} |-> IF x = k THEN v ELSE m[x]]

update_run_state(st, backend_name, subsystem_name, rs) ==
  [st EXCEPT !.run_state = MapPut(@, << backend_name, subsystem_name >>, rs)]

update_bisect_status(st, backend_name, subsystem_name) ==
  [st EXCEPT !.status = [exists |-> TRUE, backend |-> backend_name,
                         subsystem |-> subsystem_name]]

update_bisect_range(st, backend_name, subsystem_name, low, high) ==
  [st EXCEPT !.range = MapPut(@, << backend_name, subsystem_name >>,
                              [low |-> low, high |-> high])]

get_backend(st) == IF st.status.exists THEN st.status.backend ELSE ""

get_subsystem(st) == IF st.status.exists THEN st.status.subsystem ELSE ""

get_run_state(st, backend_name, subsystem_name) ==
  IF << backend_name, subsystem_name >> \in DOMAIN st.run_state
  THEN st.run_state[<< backend_name, subsystem_name >>]
  ELSE ""

\* get_bisect_range raises RuntimeError when the file holds no low or high
HasRange(st, backend_name, subsystem_name) ==
  << backend_name, subsystem_name >> \in DOMAIN st.range

get_bisect_range(st, backend_name, subsystem_name) ==
  st.range[<< backend_name, subsystem_name >>]

\* a variant that removes the cursor and the run states only
delete_bisect_status_keep_ranges(st) == [EmptyStore EXCEPT !.range = st.range]

delete_bisect_status(st) == EmptyStore

initialize_system(st) == update_bisect_status(st, BACKENDS[1].name, "")

----------------------------------------------------------------------------
(* Call counter *)

CounterGet(ctr, name) == IF name \in DOMAIN ctr THEN ctr[name] ELSE 0

\* a call with increment=False
get_system_counter_no_increment(ctr, name) ==
  [curr |-> CounterGet(ctr, name), ctr |-> ctr]

get_system_counter(ctr, name) ==
  [curr |-> CounterGet(ctr, name),
   ctr  |-> MapPut(ctr, name, CounterGet(ctr, name) + 1)]

----------------------------------------------------------------------------
(* Guard hook.  ret is "True", "False" or "raise" (RuntimeError of         *)
(* get_bisect_range); info is the set of debug-info keys written.          *)

FindMaxBoundsHighAfterIncrement(counter) == counter + 1

\* the value get_system_counter returns is the count before the increment
FindMaxBoundsHigh(counter) == counter

BisectSuppressInclusive(call_counter, midpoint) == call_counter >= midpoint

BisectSuppress(call_counter, midpoint) == call_counter > midpoint

\* a variant that counts on from the persisted high
find_max_bounds_count_on(st, backend, subsystem, counter) ==
  update_bisect_range(st, backend, subsystem, 0,
    IF HasRange(st, backend, subsystem)
    THEN get_bisect_range(st, backend, subsystem).high + 1 ELSE 0)

\* lines 185-190: the Range written by a guard call in find_max_bounds
find_max_bounds_update(st, backend, subsystem, counter) ==
  update_bisect_range(st, backend, subsystem, 0, FindMaxBoundsHigh(counter))

\* a variant that compares the backend only
fast_path_backend_only(st, enabled, backend, subsystem) ==
  \/ ~enabled
  \/ get_backend(st) # backend

\* lines 166-173: the three early returns of disable_subsystem
fast_path(st, enabled, backend, subsystem) ==
  \/ ~enabled
  \/ get_backend(st) # backend
  \/ get_subsystem(st) # subsystem

disable_subsystem(st, enabled, ctr, backend, subsystem, has_debug_info) ==
  LET quiet == [ret |-> "False", st |-> st, ctr |-> ctr, info |-> {}]
      rs    == get_run_state(st, backend, subsystem)
      got   == get_system_counter(ctr, subsystem)
  IN
  IF fast_path(st, enabled, backend, subsystem) THEN quiet
  ELSE IF rs = "test_disable" THEN [quiet EXCEPT !.ret = "True"]
  ELSE IF rs = "find_max_bounds" THEN
    [ret |-> "False",
     st |-> find_max_bounds_update(st, backend, subsystem, got.curr),
     ctr |-> got.ctr, info |-> {}]
  ELSE IF ~HasRange(st, backend, subsystem) THEN
    [quiet EXCEPT !.ret = "raise"]
  ELSE
    LET r == get_bisect_range(st, backend, subsystem)
        midpoint == (r.low + r.high) \div 2
    IN [ret |-> IF BisectSuppress(got.curr, midpoint) THEN "True" ELSE "False",
        st |-> st,
        ctr |-> got.ctr,
        info |-> IF /\ got.curr >= r.low
                    /\ got.curr <= r.high
                    /\ (r.low - r.high) <= 2
                    /\ has_debug_info
                 THEN {got.curr} ELSE {}]

----------------------------------------------------------------------------
(* Traversal helpers.  None is written "" : the callers only test truth.   *)

advance_subsystem(st, backend, subsystem) ==
  LET current_subsystems == SubsystemsOf(backend)
      current_subsystem_index == ListIndex(current_subsystems, subsystem)
      nxt == current_subsystems[current_subsystem_index + 1]
  IN
  IF current_subsystem_index < Len(current_subsystems)
  THEN [next |-> nxt,
        st |-> update_run_state(update_bisect_status(st, backend, nxt),
                                backend, nxt, "test_disable")]
  ELSE [next |-> "", st |-> st]

\* a variant that persists the cursor without moving it
advance_backend_stale(st, backend) ==
  LET current_system_index == BackendIndex(backend)
      nxt == BACKENDS[current_system_index + 1].name
  IN
  IF current_system_index < Len(BACKENDS)
  THEN [next |-> nxt, st |-> update_bisect_status(st, backend, "")]
  ELSE [next |-> "", st |-> st]

\* a variant that gives up one backend early
advance_backend_short(st, backend) ==
  LET current_system_index == BackendIndex(backend)
      nxt == BACKENDS[current_system_index + 1].name
  IN
  IF current_system_index < Len(BACKENDS) - 1
  THEN [next |-> nxt, st |-> update_bisect_status(st, nxt, "")]
  ELSE [next |-> "", st |-> st]

advance_backend(st, backend) ==
  LET current_system_index == BackendIndex(backend)
      nxt == BACKENDS[current_system_index + 1].name
  IN
  IF current_system_index < Len(BACKENDS)
  THEN [next |-> nxt, st |-> update_bisect_status(st, nxt, "")]
  ELSE [next |-> "", st |-> st]

RunStates == { "test_disable", "find_max_bounds", "bisect" }

\* the two halves a bisect probe can keep
\* a variant that keeps the midpoint in the upper half
UpperHalfFromMidpoint(low, high) == [low |-> (low + high) \div 2, high |-> high]

UpperHalf(low, high) == [low |-> ((low + high) \div 2) + 1, high |-> high]

LowerHalfExclusive(low, high) ==
  [low |-> low, high |-> ((low + high) \div 2) - 1]

LowerHalf(low, high) == [low |-> low, high |-> (low + high) \div 2]

\* a variant that does not look at the result of fn()
find_max_bounds_step_any_result(st, backend, subsystem, r) ==
  IF ~HasRange(st, backend, subsystem)
  THEN [out |-> "raise", st |-> st, sub |-> subsystem]
  ELSE [out |-> "continue",
        st |-> update_run_state(st, backend, subsystem, "bisect"),
        sub |-> subsystem]

\* a variant that does not read the Range before it moves on
find_max_bounds_step_no_read(st, backend, subsystem, r) ==
  IF r THEN [out |-> "raise", st |-> st, sub |-> subsystem]
  ELSE [out |-> "continue",
        st |-> update_run_state(st, backend, subsystem, "bisect"),
        sub |-> subsystem]

\* lines 274-282: the find_max_bounds branch of perform_bisection
find_max_bounds_step(st, backend, subsystem, r) ==
  IF r THEN [out |-> "raise", st |-> st, sub |-> subsystem]
  ELSE IF ~HasRange(st, backend, subsystem)
  THEN [out |-> "raise", st |-> st, sub |-> subsystem]
  ELSE [out |-> "continue",
        st |-> update_run_state(st, backend, subsystem, "bisect"),
        sub |-> subsystem]

(* One iteration of perform_bisection's loop after fn() returned r, for    *)
(* the run_state rs read at the top of the iteration.  out is "continue"   *)
(* (line 305 is reached), "True" / "False" (the function returns) or       *)
(* "raise".                                                                *)
perform_bisection(st, backend, subsystem, rs, r) ==
  IF rs = "test_disable" THEN
    IF ~r THEN
      LET adv == advance_subsystem(st, backend, subsystem) IN
      IF adv.next = ""
      THEN [out |-> "False", st |-> st, sub |-> subsystem]
      ELSE [out |-> "continue", st |-> adv.st, sub |-> adv.next]
    ELSE [out |-> "continue",
          st |-> update_run_state(st, backend, subsystem, "find_max_bounds"),
          sub |-> subsystem]
  ELSE IF rs = "find_max_bounds" THEN
    find_max_bounds_step(st, backend, subsystem, r)
  ELSE \* rs = "bisect"; the range was read before fn() ran
    LET old == get_bisect_range(st, backend, subsystem)
        new == IF r THEN UpperHalf(old.low, old.high)
                    ELSE LowerHalf(old.low, old.high)
        st2 == update_bisect_range(st, backend, subsystem, new.low, new.high)
    IN [out |-> IF new.low = new.high THEN "True" ELSE "continue",
        st |-> st2, sub |-> subsystem]

CliNeverExits(cli) == FALSE

\* lines 305-306 and 380-381: if cli_interface: sys.exit(0)
CliExits(cli) == cli

NoRet == [kind |-> "none", path |-> << >>, index |-> 0]

Returned(path, index) == [kind |-> "returned", path |-> path, index |-> index]

Raised(kind) == [kind |-> kind, path |-> << >>, index |-> 0]

\* a variant that persists the entry Run State before it looks at the list
drill_down_persist_first(st, backend) ==
  LET current_subsystems == SubsystemsOf(backend)
      first == IF current_subsystems # << >> THEN current_subsystems[1] ELSE ""
  IN [subsystem |-> first,
      st |-> update_run_state(update_bisect_status(st, backend, first),
                              backend, first, "test_disable")]

\* lines 366-378: a false backend-level result selects the backend's first
\* subsystem, when it has one
drill_down(st, backend) ==
  LET current_subsystems == SubsystemsOf(backend) IN
  IF current_subsystems # << >>
  THEN [subsystem |-> current_subsystems[1],
        st |-> update_run_state(
                 update_bisect_status(st, backend, current_subsystems[1]),
                 backend, current_subsystems[1], "test_disable")]
  ELSE [subsystem |-> "", st |-> st]

(* do_bisect from the return of fn() to the next call of fn(), the return  *)
(* or the exit: lines 342-381.  in_pb tells whether fn() was called by     *)
(* perform_bisection.  The result names the next position.                 *)
do_bisect_step(st, cli, backend, subsystem, pbsub, rs, in_pb, r) ==
  LET base == [st |-> st, backend |-> backend, subsystem |-> subsystem,
               pbsub |-> pbsub, next |-> "do_loop", ret |-> NoRet]
      after(x) == IF CliExits(cli) THEN [x EXCEPT !.next = "exit"] ELSE x
  IN
  IF in_pb THEN
    LET step == perform_bisection(st, backend, pbsub, rs, r) IN
    IF step.out = "raise"
    THEN [base EXCEPT !.next = "raise", !.ret = Raised("RuntimeError")]
    ELSE IF step.out = "continue"
    THEN after([base EXCEPT !.st = step.st, !.pbsub = step.sub,
                            !.next = "pb_loop"])
    ELSE IF step.out = "True" THEN
      LET sub == get_subsystem(step.st) IN
      IF ~HasRange(step.st, backend, sub)
      THEN [base EXCEPT !.st = step.st, !.next = "raise",
                        !.ret = Raised("RuntimeError")]
      ELSE [base EXCEPT !.st = step.st, !.subsystem = sub,
                        !.next = "return",
                        !.ret = Returned(<< backend, sub >>,
                                  get_bisect_range(step.st, backend, sub).low)]
    ELSE \* perform_bisection returned False
      LET adv == advance_subsystem(step.st, backend, subsystem) IN
      IF adv.next = ""
      THEN [base EXCEPT !.st = step.st, !.next = "return",
                        !.ret = Returned(<< backend >>, 0)]
      ELSE after([base EXCEPT !.st = adv.st,
                              !.subsystem = adv.next])
  ELSE
    IF r THEN
      LET adv == advance_backend(st, backend) IN
      IF adv.next = ""
      THEN [base EXCEPT !.next = "return", !.ret = Returned(<< >>, 0)]
      ELSE after([base EXCEPT !.st = adv.st, !.backend = adv.next])
    ELSE
      LET down == drill_down(st, backend) IN
      IF down.subsystem # ""
      THEN after([base EXCEPT !.st = down.st, !.subsystem = down.subsystem])
      ELSE [base EXCEPT !.st = down.st, !.next = "return",
                        !.ret = Returned(<< backend >>, 0)]

----------------------------------------------------------------------------
(* The predicate fn() *)

NoCulprit == [backend |-> "", subsystem |-> "", index |-> 0]

Culprits(cfg, n) ==
  { [backend |-> cfg[i].name, subsystem |-> "", index |-> 0] :
      i \in 1..Len(cfg) }
  \cup
  UNION { { [backend |-> cfg[i].name, subsystem |-> s, index |-> c] :
              s \in Range(cfg[i].subs), c \in 0..(n - 1) } :
          i \in 1..Len(cfg) }

ExampleCulprit == [backend |-> "B", subsystem |-> "s1", index |-> 3]

(* The deterministic predicate: true at the backend level for every        *)
(* backend but the culprit's; inside the culprit's backend, true exactly   *)
(* when the culprit call was suppressed in this probe.  The "example"      *)
(* predicate is the one of the worked example, true at every backend.      *)
CulpritResult(in_pb, backend, subsystem, decs) ==
  IF ~in_pb THEN pred = "example" \/ backend # culprit.backend
  ELSE /\ backend = culprit.backend
       /\ subsystem = culprit.subsystem
       /\ culprit.index < Len(decs)
       /\ decs[culprit.index + 1] = "True"

NoProbe == [kind |-> "none", backend |-> "", subsystem |-> "",
            result |-> FALSE, calls |-> 0, resumed |-> FALSE]

NoResults == [b \in BackendNames |-> "none"]

Snapshot(st, cli, subsystem) ==
  [st |-> st, cli |-> cli, subsystem |-> subsystem]

----------------------------------------------------------------------------
(* Initial state: nothing persisted, no process running *)

NoGuardCall ==
  [called |-> FALSE, enabled |-> FALSE, backend |-> "", subsystem |-> "",
   st |-> EmptyStore, ctr |-> EmptyMap, info |-> {}, ret |-> "False"]

Init ==
  /\ BACKENDS \in Configurations
  /\ bisect_status = NoStatus
  /\ run_state = EmptyMap
  /\ bisect_range = EmptyMap
  /\ subsystem_call_counter = EmptyMap
  /\ call_counter_debug_info = {}
  /\ bisection_enabled \in BOOLEAN
  /\ bisection_enabled_orig = FALSE
  /\ cli_interface = FALSE
  /\ pc = "idle"
  /\ curr_backend = ""
  /\ curr_subsystem = ""
  /\ pb_subsystem = ""
  /\ pb_run_state = ""
  /\ command = ""
  /\ ret = NoRet
  /\ pred \in { "any", "culprit", "example" }
  /\ \/ /\ pred = "any"
        /\ ncalls \in 0..MaxCalls
        /\ culprit = NoCulprit
     \/ /\ pred = "culprit"
        /\ ncalls \in 0..MaxCulpritCalls
        /\ culprit \in Culprits(BACKENDS, ncalls)
     \/ /\ pred = "example"
        /\ BACKENDS = ExampleBACKENDS
        /\ ncalls = 7
        /\ culprit = ExampleCulprit
  /\ decisions = << >>
  /\ last_probe = NoProbe
  /\ probe_tick = FALSE
  /\ fn_count = 0
  /\ blres = NoResults
  /\ snap = Snapshot(EmptyStore, FALSE, "")
  /\ interrupted = FALSE
  /\ bisect_probes = 0
  /\ guard_call = NoGuardCall
  /\ end_after_start = FALSE

SetStore(st) ==
  /\ bisect_status' = st.status
  /\ run_state' = st.run_state
  /\ bisect_range' = st.range

\* a variant that clears the counters only
reset_counters_keep_debug_info ==
  /\ subsystem_call_counter' = EmptyMap
  /\ UNCHANGED call_counter_debug_info

reset_counters ==
  /\ subsystem_call_counter' = EmptyMap
  /\ call_counter_debug_info' = {}

ClearLocals ==
  /\ curr_backend' = ""
  /\ curr_subsystem' = ""
  /\ pb_subsystem' = ""
  /\ pb_run_state' = ""

Running == { "do_loop", "pb_loop", "fn", "pb_fn", "workload" }

----------------------------------------------------------------------------
(* In-process session: do_bisect(fn), lines 319-337 *)

InProcessStart ==
  /\ pc = "idle"
  /\ LET st == initialize_system(delete_bisect_status(Store)) IN
     /\ SetStore(st)
     /\ curr_backend' = get_backend(st)
     /\ curr_subsystem' = get_subsystem(st)
     /\ snap' = Snapshot(st, FALSE, get_subsystem(st))
  /\ bisection_enabled_orig' = bisection_enabled
  /\ bisection_enabled' = TRUE
  /\ cli_interface' = FALSE
  /\ command' = ""
  /\ pc' = "do_loop"
  /\ ret' = NoRet
  /\ decisions' = << >>
  /\ last_probe' = NoProbe
  /\ fn_count' = 0
  /\ blres' = NoResults
  /\ interrupted' = FALSE
  /\ bisect_probes' = 0
  /\ end_after_start' = FALSE
  /\ UNCHANGED guard_call
  /\ UNCHANGED << BACKENDS, subsystem_call_counter, call_counter_debug_info,
                  pb_subsystem, pb_run_state, pred, ncalls, culprit,
                  probe_tick >>

(* Top of do_bisect's loop, lines 339-342 and 358-359 *)
DoBisectLoop ==
  /\ pc = "do_loop"
  /\ reset_counters
  /\ IF curr_subsystem # ""
     THEN /\ pc' = "pb_loop"
          /\ pb_subsystem' = curr_subsystem
     ELSE /\ pc' = "fn"
          /\ UNCHANGED pb_subsystem
  /\ UNCHANGED << bisect_probes, guard_call, end_after_start >>
  /\ UNCHANGED << BACKENDS, bisect_status, run_state, bisect_range,
                  bisection_enabled, bisection_enabled_orig, cli_interface,
                  curr_backend, curr_subsystem, pb_run_state, command, ret,
                  pred, ncalls, culprit, decisions, last_probe, probe_tick,
                  fn_count, blres, snap, interrupted >>

(* What the process does when an exception leaves do_bisect *)
RaiseOut(kind) ==
  /\ ret' = Raised(kind)
  /\ pc' = IF cli_interface THEN "idle" ELSE "raised"

(* Top of perform_bisection's loop, lines 257-260, 283-284, 302-303 *)
PerformBisectionLoop ==
  /\ pc = "pb_loop"
  /\ reset_counters
  /\ LET rs == get_run_state(Store, curr_backend, pb_subsystem) IN
     /\ pb_run_state' = rs
     /\ IF rs \notin RunStates
        THEN RaiseOut("RuntimeError")
        ELSE IF rs = "bisect" /\ ~HasRange(Store, curr_backend, pb_subsystem)
        THEN RaiseOut("RuntimeError")
        ELSE /\ pc' = "pb_fn"
             /\ UNCHANGED ret
  /\ UNCHANGED << bisect_probes, guard_call, end_after_start >>
  /\ UNCHANGED << BACKENDS, bisect_status, run_state, bisect_range,
                  bisection_enabled, bisection_enabled_orig, cli_interface,
                  curr_backend, curr_subsystem, pb_subsystem, command,
                  pred, ncalls, culprit, decisions, last_probe, probe_tick,
                  fn_count, blres, snap, interrupted >>

----------------------------------------------------------------------------
(* A call of the guard hook by the workload: inside fn() in an in-process  *)
(* session, in the workload's own process in external-process mode.        *)

Matches(backend, subsystem) ==
  /\ bisection_enabled
  /\ get_backend(Store) = backend
  /\ get_subsystem(Store) = subsystem

GuardCall(backend, subsystem, has_debug_info) ==
  /\ \/ pc \in { "fn", "pb_fn" } /\ ~cli_interface
     \/ pc = "workload"
  /\ Matches(backend, subsystem) => Len(decisions) < ncalls
  /\ LET g == disable_subsystem(Store, bisection_enabled,
                                subsystem_call_counter, backend, subsystem,
                                has_debug_info)
     IN
     /\ SetStore(g.st)
     /\ subsystem_call_counter' = g.ctr
     /\ call_counter_debug_info' = call_counter_debug_info \cup g.info
     /\ decisions' = IF Matches(backend, subsystem)
                     THEN Append(decisions, g.ret) ELSE decisions
     /\ IF g.ret = "raise"
        THEN /\ ret' = Raised("RuntimeError")
             /\ pc' = IF pc = "workload" THEN "idle" ELSE "raised"
        ELSE UNCHANGED << pc, ret >>
  /\ UNCHANGED << bisect_probes, guard_call, end_after_start >>
  /\ UNCHANGED << BACKENDS, bisection_enabled, bisection_enabled_orig,
                  cli_interface, curr_backend, curr_subsystem, pb_subsystem,
                  pb_run_state, command, pred, ncalls, culprit, last_probe,
                  probe_tick, fn_count, blres, snap,
                  interrupted >>

(* fn() returns r and the controller runs up to the next call of fn(),     *)
(* its return or its exit: lines 261-306 and 342-381.                      *)
FnReturn(r) ==
  /\ pc \in { "fn", "pb_fn" }
  /\ LET in_pb == (pc = "pb_fn")
         sub == IF in_pb THEN pb_subsystem ELSE ""
     IN
     /\ cli_interface => r = (command = "good")
     /\ ~cli_interface /\ in_pb => Len(decisions) = ncalls
     /\ ~cli_interface /\ pred # "any" =>
          r = CulpritResult(in_pb, curr_backend, sub, decisions)
     /\ LET s == do_bisect_step(Store, cli_interface, curr_backend,
                                curr_subsystem, pb_subsystem, pb_run_state,
                                in_pb, r)
        IN
        /\ SetStore(s.st)
        /\ curr_backend' = s.backend
        /\ curr_subsystem' = s.subsystem
        /\ pb_subsystem' = s.pbsub
        /\ snap' = Snapshot(s.st, cli_interface, s.subsystem)
        /\ IF s.next = "exit"
           THEN /\ pc' = "idle"
                /\ ret' = [NoRet EXCEPT !.kind = "exit0"]
           ELSE IF s.next = "return"
           THEN /\ pc' = IF cli_interface THEN "idle" ELSE "returning"
                /\ ret' = s.ret
           ELSE IF s.next = "raise"
           THEN /\ pc' = IF cli_interface THEN "idle" ELSE "raised"
                /\ ret' = s.ret
           ELSE /\ pc' = s.next
                /\ UNCHANGED ret
     /\ last_probe' = [kind |-> IF in_pb THEN pb_run_state ELSE "backend",
                       backend |-> curr_backend, subsystem |-> sub,
                       result |-> r, calls |-> Len(decisions),
                       resumed |-> interrupted]
     /\ blres' = IF in_pb THEN blres
                 ELSE [blres EXCEPT ![curr_backend] =
                         IF r THEN "True" ELSE "False"]
  /\ probe_tick' = ~probe_tick
  /\ fn_count' = IF fn_count < MaxFnCount THEN fn_count + 1 ELSE fn_count
  /\ decisions' = << >>
  /\ interrupted' = FALSE
  /\ UNCHANGED << guard_call, end_after_start >>
  /\ bisect_probes' = IF pc = "pb_fn" /\ pb_run_state = "bisect"
                      THEN IF bisect_probes < MaxBisectProbes
                           THEN bisect_probes + 1 ELSE bisect_probes
                      ELSE 0
  /\ UNCHANGED << BACKENDS, subsystem_call_counter, call_counter_debug_info,
                  bisection_enabled, bisection_enabled_orig, cli_interface,
                  pb_run_state, command, pred, ncalls, culprit >>

(* DisableBisect.__del__, lines 324-327: runs when do_bisect's frame is    *)
(* released, which a return does at once and a propagating exception does  *)
(* only when its traceback is dropped.                                     *)
DisableBisectDel ==
  /\ pc \in { "returning", "raised" }
  /\ bisection_enabled' = bisection_enabled_orig
  /\ SetStore(delete_bisect_status(Store))
  /\ pc' = IF pc = "returning" THEN "returned" ELSE "cleaned"
  /\ UNCHANGED << bisect_probes, guard_call, end_after_start >>
  /\ UNCHANGED << BACKENDS, subsystem_call_counter, call_counter_debug_info,
                  bisection_enabled_orig, cli_interface, curr_backend,
                  curr_subsystem, pb_subsystem, pb_run_state, command, ret,
                  pred, ncalls, culprit, decisions, last_probe, probe_tick,
                  fn_count, blres, snap, interrupted >>

----------------------------------------------------------------------------
(* External-process mode: command_line_usage, lines 384-411.  Each command *)
(* is a fresh process, whose import sets bisection_enabled (line 421:      *)
(* get_backend and get_subsystem return strings, never None).              *)

get_is_bisection_enabled == TRUE

FreshProcess ==
  /\ subsystem_call_counter' = EmptyMap
  /\ call_counter_debug_info' = {}
  /\ bisection_enabled' = get_is_bisection_enabled

CliReset(st, cmd) ==
  /\ pc = "idle"
  /\ pred = "any"
  /\ FreshProcess
  /\ SetStore(st)
  /\ command' = cmd
  /\ ret' = [NoRet EXCEPT !.kind = "exit0"]
  /\ cli_interface' = TRUE
  /\ ClearLocals
  /\ decisions' = << >>
  /\ last_probe' = NoProbe
  /\ fn_count' = 0
  /\ blres' = NoResults
  /\ snap' = Snapshot(st, TRUE, "")
  /\ interrupted' = FALSE
  /\ bisect_probes' = 0
  /\ end_after_start' = (cmd = "end" /\ command = "start")
  /\ UNCHANGED guard_call
  /\ UNCHANGED << BACKENDS, bisection_enabled_orig, pc, pred, ncalls,
                  culprit, probe_tick >>

CliEnd == CliReset(delete_bisect_status(Store), "end")

CliStart ==
  CliReset(initialize_system(delete_bisect_status(Store)), "start")

SessionStartedAlways(st) == TRUE

\* line 408: good and bad need the cursor that start persists
SessionStarted(st) == get_backend(st) # ""

(* good / bad: lines 401-411 and do_bisect's lines 331-337 *)
CliGoodBad(cmd) ==
  /\ pc = "idle"
  /\ pred = "any"
  /\ FreshProcess
  /\ command' = cmd
  /\ cli_interface' = TRUE
  /\ fn_count' = 0
  /\ IF ~SessionStarted(Store)
     THEN /\ ret' = Raised("ValueError")
          /\ UNCHANGED << pc, bisect_status, run_state, bisect_range >>
          /\ ClearLocals
     ELSE LET st == IF get_backend(Store) = ""
                    THEN initialize_system(Store) ELSE Store
          IN
          /\ SetStore(st)
          /\ ret' = NoRet
          /\ pc' = "do_loop"
          /\ curr_backend' = get_backend(st)
          /\ curr_subsystem' = get_subsystem(st)
          /\ pb_subsystem' = ""
          /\ pb_run_state' = ""
  /\ end_after_start' = FALSE
  /\ UNCHANGED << bisect_probes, guard_call >>
  /\ UNCHANGED << BACKENDS, bisection_enabled_orig, pred, ncalls, culprit, decisions,
                  last_probe, probe_tick, blres, snap, interrupted >>

(* The operator runs the workload under test in a process of its own *)
WorkloadStart ==
  /\ pc = "idle"
  /\ pred = "any"
  /\ FreshProcess
  /\ pc' = "workload"
  /\ cli_interface' = TRUE
  /\ decisions' = << >>
  /\ ClearLocals
  /\ end_after_start' = FALSE
  /\ UNCHANGED << bisect_probes, guard_call >>
  /\ UNCHANGED << BACKENDS, bisect_status, run_state, bisect_range,
                  bisection_enabled_orig, command, ret, pred, ncalls, culprit,
                  last_probe, probe_tick, fn_count, blres, snap,
                  interrupted >>

WorkloadEnd ==
  /\ pc = "workload"
  /\ get_subsystem(Store) # "" => Len(decisions) = ncalls
  /\ pc' = "idle"
  /\ UNCHANGED << bisect_probes, guard_call, end_after_start >>
  /\ UNCHANGED << BACKENDS, bisect_status, run_state, bisect_range,
                  subsystem_call_counter, call_counter_debug_info,
                  bisection_enabled, bisection_enabled_orig, cli_interface,
                  curr_backend, curr_subsystem, pb_subsystem, pb_run_state,
                  command, ret, pred, ncalls, culprit, decisions, last_probe,
                  probe_tick, fn_count, blres, snap,
                  interrupted >>

(* The running process is killed: its memory is lost, the files stay *)
Kill ==
  /\ pc \in Running
  /\ pred = "any"
  /\ pc' = "idle"
  /\ FreshProcess
  /\ ClearLocals
  /\ cli_interface' = TRUE
  /\ ret' = [NoRet EXCEPT !.kind = "killed"]
  /\ decisions' = << >>
  /\ interrupted' = TRUE
  /\ UNCHANGED << bisect_probes, guard_call, end_after_start >>
  /\ UNCHANGED << BACKENDS, bisect_status, run_state, bisect_range,
                  bisection_enabled_orig, command, pred, ncalls, culprit,
                  last_probe, probe_tick, fn_count, blres, snap >>

----------------------------------------------------------------------------

Next ==
  \/ InProcessStart
  \/ DoBisectLoop
  \/ PerformBisectionLoop
  \/ \E k \in ConfiguredKeys, d \in BOOLEAN : GuardCall(k[1], k[2], d)
  \/ \E r \in BOOLEAN : FnReturn(r)
  \/ DisableBisectDel
  \/ CliStart
  \/ CliEnd
  \/ \E cmd \in { "good", "bad" } : CliGoodBad(cmd)
  \/ WorkloadStart
  \/ WorkloadEnd
  \/ Kill

Spec == Init /\ [][Next]_vars

(* In-process searches driven by the deterministic predicate.  The        *)
(* program is sequential: a step that can be taken is taken.               *)
InitCulprit == Init /\ pred # "any"

NextInProcess ==
  \/ InProcessStart
  \/ DoBisectLoop
  \/ PerformBisectionLoop
  \/ \E k \in ConfiguredKeys, d \in BOOLEAN : GuardCall(k[1], k[2], d)
  \/ \E r \in BOOLEAN : FnReturn(r)
  \/ DisableBisectDel

SpecCulprit ==
  /\ InitCulprit
  /\ [][NextInProcess]_vars
  /\ WF_vars(DoBisectLoop)
  /\ WF_vars(PerformBisectionLoop)
  /\ WF_vars(\E k \in ConfiguredKeys, d \in BOOLEAN : GuardCall(k[1], k[2], d))
  /\ WF_vars(\E r \in BOOLEAN : FnReturn(r))

(* One guard call on a persisted store drawn from the files the guard can  *)
(* find: any cursor, and for one subsystem any first line of its run       *)
(* state file and any (or no) range file.                                  *)
RunStateLines == RunStates \cup { "", "done" }

Cursors ==
  { NoStatus } \cup
  { [exists |-> TRUE, backend |-> b, subsystem |-> ""] : b \in BackendNames }
  \cup
  { [exists |-> TRUE, backend |-> k[1], subsystem |-> k[2]] :
      k \in ConfiguredKeys }

InitGuard ==
  /\ BACKENDS \in Configurations
  /\ bisect_status \in Cursors
  /\ \E k \in ConfiguredKeys :
       /\ run_state \in
            { EmptyMap } \cup
            { MapPut(EmptyMap, k, v) : v \in RunStateLines }
       /\ bisect_range \in
            { EmptyMap } \cup
            { MapPut(EmptyMap, k, [low |-> l, high |-> h]) :
                l \in 0..MaxCalls, h \in 0..MaxCalls }
       /\ subsystem_call_counter \in
            { EmptyMap } \cup
            { MapPut(EmptyMap, k[2], c) : c \in 1..MaxCalls }
  /\ call_counter_debug_info = {}
  /\ bisection_enabled \in BOOLEAN
  /\ bisection_enabled_orig = FALSE
  /\ cli_interface = FALSE
  /\ pc = "guard"
  /\ curr_backend = ""
  /\ curr_subsystem = ""
  /\ pb_subsystem = ""
  /\ pb_run_state = ""
  /\ command = ""
  /\ ret = NoRet
  /\ pred = "any"
  /\ ncalls = 0
  /\ culprit = NoCulprit
  /\ decisions = << >>
  /\ last_probe = NoProbe
  /\ probe_tick = FALSE
  /\ fn_count = 0
  /\ blres = NoResults
  /\ snap = Snapshot(EmptyStore, FALSE, "")
  /\ interrupted = FALSE
  /\ bisect_probes = 0
  /\ guard_call = NoGuardCall
  /\ end_after_start = FALSE

GuardApply(backend, subsystem, has_debug_info) ==
  /\ pc = "guard"
  /\ LET g == disable_subsystem(Store, bisection_enabled,
                                subsystem_call_counter, backend, subsystem,
                                has_debug_info)
     IN
     /\ SetStore(g.st)
     /\ subsystem_call_counter' = g.ctr
     /\ call_counter_debug_info' = call_counter_debug_info \cup g.info
     /\ guard_call' = [called |-> TRUE, enabled |-> bisection_enabled,
                       backend |-> backend, subsystem |-> subsystem,
                       st |-> Store, ctr |-> subsystem_call_counter,
                       info |-> call_counter_debug_info, ret |-> g.ret]
     /\ ret' = IF g.ret = "raise" THEN Raised("RuntimeError") ELSE NoRet
  /\ pc' = "guarded"
  /\ UNCHANGED << BACKENDS, bisection_enabled, bisection_enabled_orig,
                  cli_interface, curr_backend, curr_subsystem, pb_subsystem,
                  pb_run_state, command, pred, ncalls, culprit, decisions,
                  last_probe, probe_tick, fn_count, blres, snap,
                  interrupted, bisect_probes, end_after_start >>

NextGuard ==
  \E k \in ConfiguredKeys, d \in BOOLEAN : GuardApply(k[1], k[2], d)

SpecGuard == InitGuard /\ [][NextGuard]_vars

----------------------------------------------------------------------------
(* Claims *)

CulpritKey == << culprit.backend, culprit.subsystem >>

CulpritCase == pred = "culprit" /\ culprit.subsystem # ""

\* C1: with a deterministic monotone predicate whose culprit is call c of a
\* subsystem, an in-process search always comes to return, and what it
\* returns is ([backend, subsystem], c) with the persisted Range [c, c].
C1_BisectFindsCulprit ==
  /\ [](CulpritCase /\ pc = "returning" =>
          /\ ret = Returned(<< culprit.backend, culprit.subsystem >>,
                            culprit.index)
          /\ CulpritKey \in DOMAIN bisect_range
          /\ bisect_range[CulpritKey] =
               [low |-> culprit.index, high |-> culprit.index])
  /\ (CulpritCase /\ pc = "do_loop") ~> (pc = "returning")

C1_Witness ==
  /\ CulpritCase
  /\ pc = "returning"
  /\ ncalls = MaxCulpritCalls
  /\ culprit.index = 3
  /\ ret.index = 3
  /\ last_probe.kind = "bisect"

\* a step that judges a complete probe of Run State rs with result r
Judges(rs, r) ==
  /\ pc = "pb_fn"
  /\ pb_run_state = rs
  /\ Len(decisions) = ncalls
  /\ probe_tick' # probe_tick
  /\ last_probe'.result = r

ActiveKey == << curr_backend, pb_subsystem >>

\* C2 as stated: the Range persisted when find_max_bounds moves on to
\* bisect after N guard calls is [0, N].
C2_RangeIsZeroToN ==
  [][Judges("find_max_bounds", FALSE) =>
       /\ ActiveKey \in DOMAIN bisect_range'
       /\ bisect_range'[ActiveKey] = [low |-> 0, high |-> ncalls]
       /\ run_state'[ActiveKey] = "bisect"]_vars

\* C2 amended: after N >= 1 guard calls in a find_max_bounds probe judged
\* false the Range persisted on the transition to bisect is [0, N - 1];
\* after N = 0 calls no Range is persisted, the step raises and the Run
\* State stays find_max_bounds.
C2_RangeIsZeroToLastIndex ==
  [][Judges("find_max_bounds", FALSE) =>
       IF ncalls >= 1
       THEN /\ ActiveKey \in DOMAIN bisect_range'
            /\ bisect_range'[ActiveKey] = [low |-> 0, high |-> ncalls - 1]
            /\ run_state'[ActiveKey] = "bisect"
       ELSE /\ ActiveKey \notin DOMAIN bisect_range'
            /\ run_state'[ActiveKey] = "find_max_bounds"
            /\ ret'.kind = "RuntimeError"]_vars

C2_Witness ==
  /\ last_probe.kind = "find_max_bounds"
  /\ ~last_probe.result
  /\ last_probe.calls = MaxCalls
  /\ ncalls = MaxCalls
  /\ pc = "pb_loop"
  /\ << curr_backend, pb_subsystem >> \in DOMAIN bisect_range
  /\ bisect_range[<< curr_backend, pb_subsystem >>] =
       [low |-> 0, high |-> MaxCalls - 1]
  /\ run_state[<< curr_backend, pb_subsystem >>] = "bisect"

\* C3 as stated: every persisted Range has low <= high.
C3_LowAtMostHigh ==
  \A k \in DOMAIN bisect_range : bisect_range[k].low <= bisect_range[k].high

\* the guard decisions and the store of a probe that makes n calls of the
\* active guard from fresh counters
RECURSIVE GuardRun(_, _, _, _, _)
GuardRun(st, ctr, backend, subsystem, n) ==
  IF n = 0 THEN [st |-> st, decs |-> << >>]
  ELSE LET g == disable_subsystem(st, TRUE, ctr, backend, subsystem, FALSE)
           rest == GuardRun(g.st, g.ctr, backend, subsystem, n - 1)
       IN [st |-> rest.st, decs |-> << g.ret >> \o rest.decs]

\* the probe an uninterrupted run makes from the store and locals of sn,
\* judged r: its guard decisions and the store persisted after it
Uninterrupted(sn, r) ==
  LET b == get_backend(sn.st)
      s == get_subsystem(sn.st)
      run == IF s = "" THEN [st |-> sn.st, decs |-> << >>]
             ELSE GuardRun(sn.st, EmptyMap, b, s, ncalls)
  IN [decs |-> run.decs,
      st |-> do_bisect_step(run.st, sn.cli, b, sn.subsystem, s,
                            get_run_state(sn.st, b, s), s # "", r).st]

C5_EndedSessionLeavesNothing ==
  ~cli_interface /\ pc \in { "returned", "raised", "cleaned" } =>
    /\ Store = EmptyStore
    /\ bisection_enabled = bisection_enabled_orig

\* C6: a good or bad command of a started session calls the predicate
\* exactly once before its process ends, is never at a probe again after
\* that call, and persists at most one transition: a move of the cursor
\* (with the test_disable entry of the subsystem it moves to), or one Run
\* State, or one Range.
ChangedKeys(old, new) ==
  { k \in DOMAIN new : k \notin DOMAIN old \/ old[k] # new[k] }

C6_OneProbePerCommand ==
  /\ [](cli_interface /\ command \in { "good", "bad" } =>
          /\ pc = "idle" /\ ret.kind \in { "exit0", "returned", "RuntimeError" }
               => fn_count = 1
          /\ pc \in { "do_loop", "pb_loop", "fn", "pb_fn" } => fn_count = 0)
  /\ [][cli_interface /\ probe_tick' # probe_tick =>
          /\ pc' = "idle"
          /\ IF bisect_status' # bisect_status
             THEN /\ bisect_range' = bisect_range
                  /\ ChangedKeys(run_state, run_state') \subseteq
                       { << bisect_status'.backend,
                            bisect_status'.subsystem >> }
             ELSE Cardinality(ChangedKeys(run_state, run_state'))
                  + Cardinality(ChangedKeys(bisect_range, bisect_range'))
                  <= 1]_vars

C6_Witness ==
  /\ cli_interface
  /\ command = "good"
  /\ pc = "idle"
  /\ ret.kind = "exit0"
  /\ fn_count = 1
  /\ last_probe.kind = "bisect"
  /\ bisect_range[<< last_probe.backend, last_probe.subsystem >>].low > 0

\* a step that judges a backend-level probe
JudgesBackend == pc = "fn" /\ probe_tick' # probe_tick

Cursor(backend, subsystem) ==
  [exists |-> TRUE, backend |-> backend, subsystem |-> subsystem]

\* C7: a backend-level probe of a backend that has subsystems moves the
\* cursor to the next backend with an empty subsystem on true (the search
\* ends with an empty path after the last backend), and on false makes the
\* cursor (backend, first subsystem) and persists test_disable for it
\* before any other probe.
C7_BackendLevelProbe ==
  [][JudgesBackend /\ SubsystemsOf(curr_backend) # << >> =>
       LET i == BackendIndex(curr_backend)
           first == SubsystemsOf(curr_backend)[1]
       IN
       IF last_probe'.result
       THEN IF i < Len(BACKENDS)
            THEN /\ bisect_status' = Cursor(BACKENDS[i + 1].name, "")
                 /\ pc' \in { "do_loop", "idle" }
            ELSE /\ ret' = Returned(<< >>, 0)
                 /\ pc' \in { "returning", "idle" }
       ELSE /\ bisect_status' = Cursor(curr_backend, first)
            /\ get_run_state(Store', curr_backend, first) = "test_disable"
            /\ pc' \in { "do_loop", "idle" }]_vars

C7_Witness ==
  /\ last_probe.kind = "backend"
  /\ ~last_probe.result
  /\ pc = "do_loop"
  /\ SubsystemsOf(last_probe.backend) # << >>
  /\ bisect_status =
       Cursor(last_probe.backend, SubsystemsOf(last_probe.backend)[1])
  /\ get_run_state(Store, bisect_status.backend, bisect_status.subsystem)
       = "test_disable"

\* C8: a false backend-level probe of a backend without subsystems ends the
\* search with ([backend], 0): the cursor keeps its empty subsystem and no
\* Run State or Range is persisted for the backend.
C8_BackendWithoutSubsystems ==
  [][JudgesBackend /\ SubsystemsOf(curr_backend) = << >>
       /\ ~last_probe'.result =>
       /\ ret' = Returned(<< curr_backend >>, 0)
       /\ pc' \in { "returning", "idle" }
       /\ bisect_status' = Cursor(curr_backend, "")
       /\ \A k \in DOMAIN run_state' \cup DOMAIN bisect_range' :
            k[1] # curr_backend]_vars

C8_Witness ==
  /\ last_probe.kind = "backend"
  /\ ~last_probe.result
  /\ SubsystemsOf(last_probe.backend) = << >>
  /\ BackendIndex(last_probe.backend) > 1
  /\ pc = "returning"
  /\ ret = Returned(<< last_probe.backend >>, 0)

\* C9: what an in-process do_bisect returns is an empty path after every
\* backend-level probe returned true, or [b] for a backend whose
\* backend-level probe returned false, or [b, s] with s a subsystem of b
\* whose Range is the single index returned.
C9_ReturnedPath ==
  ~cli_interface /\ pc = "returning" =>
    /\ ret.kind = "returned"
    /\ Len(ret.path) \in 0..2
    /\ Len(ret.path) = 0 => \A b \in BackendNames : blres[b] = "True"
    /\ Len(ret.path) = 1 =>
         ret.path[1] \in BackendNames /\ blres[ret.path[1]] = "False"
    /\ Len(ret.path) = 2 =>
         /\ ret.path[1] \in BackendNames
         /\ ret.path[2] \in Range(SubsystemsOf(ret.path[1]))
         /\ ret.path \in DOMAIN bisect_range
         /\ bisect_range[ret.path].low = bisect_range[ret.path].high
         /\ ret.index = bisect_range[ret.path].low

C9_Witness ==
  /\ ~cli_interface
  /\ pc = "returning"
  /\ Len(ret.path) = 2
  /\ ret.index = 2
  /\ pred = "any"

\* C10 as stated: in the example configuration, a predicate that is true
\* at A's and at B's backend-level probe and then localizes call 3 of the 7
\* guarded calls of s1 makes the search return ([B, s1], 3).
C10_ExampleTrueAtB ==
  pred = "example" /\ pc = "returning" =>
    ret = Returned(<< "B", "s1" >>, 3)

\* C10 amended: in the example configuration, a predicate that is true at
\* A's backend-level probe, false at B's, and then true exactly when call 3
\* of the 7 guarded calls of s1 is suppressed makes the search return
\* ([B, s1], 3).
C10_ExampleFalseAtB ==
  /\ pred = "culprit"
  /\ BACKENDS = ExampleBACKENDS
  /\ ncalls = 7
  /\ culprit = ExampleCulprit
  /\ pc = "returning"
  => /\ ret = Returned(<< "B", "s1" >>, 3)
     /\ blres = [b \in BackendNames |-> IF b = "A" THEN "True" ELSE "False"]

C10_Witness ==
  /\ pred = "culprit"
  /\ BACKENDS = ExampleBACKENDS
  /\ ncalls = 7
  /\ culprit = ExampleCulprit
  /\ pc = "returning"
  /\ ret.path = << "B", "s1" >>
  /\ last_probe.kind = "bisect"


RECURSIVE CeilLog2(_)
CeilLog2(n) == IF n <= 1 THEN 0 ELSE 1 + CeilLog2((n + 1) \div 2)

\* C11: when a bisect probe first brings the Range of a subsystem with N
\* guarded calls per probe to low == high, at most ceil(log2(N + 1)) bisect
\* probes have been judged for the subsystem.
C11_BisectProbeBound ==
  [][(/\ pc = "pb_fn"
      /\ pb_run_state = "bisect"
      /\ probe_tick' # probe_tick
      /\ \/ bisect_probes = 0
         \/ bisect_range[ActiveKey].low # bisect_range[ActiveKey].high
      /\ bisect_range'[ActiveKey].low = bisect_range'[ActiveKey].high)
     => bisect_probes' <= CeilLog2(ncalls + 1)]_vars

C11_Witness ==
  /\ last_probe.kind = "bisect"
  /\ ncalls = MaxCalls
  /\ bisect_probes = CeilLog2(MaxCalls + 1)
  /\ bisect_range[<< last_probe.backend, last_probe.subsystem >>].low =
       bisect_range[<< last_probe.backend, last_probe.subsystem >>].high


\* C12: a true result of fn() in Run State find_max_bounds ends the step in
\* the contract-violation error, nothing is persisted and the Run State of
\* the subsystem stays find_max_bounds.
C12_TrueInFindMaxBoundsRaises ==
  [][(/\ pc = "pb_fn"
      /\ pb_run_state = "find_max_bounds"
      /\ probe_tick' # probe_tick
      /\ last_probe'.result)
     =>
     (/\ ret'.kind = "RuntimeError"
      /\ pc' \in { "raised", "idle" }
      /\ Store' = Store
      /\ get_run_state(Store', curr_backend, pb_subsystem)
           = "find_max_bounds")]_vars

C12_Witness ==
  /\ last_probe.kind = "find_max_bounds"
  /\ last_probe.result
  /\ last_probe.calls = MaxCalls
  /\ ret.kind = "RuntimeError"
  /\ pc = "raised"
  /\ get_run_state(Store, last_probe.backend, last_probe.subsystem)
       = "find_max_bounds"


\* The guard call recorded was made for the active cursor with bisection on.
GuardCallActive ==
  /\ guard_call.called
  /\ guard_call.enabled
  /\ get_backend(guard_call.st) = guard_call.backend
  /\ get_subsystem(guard_call.st) = guard_call.subsystem

GuardCallRunState ==
  get_run_state(guard_call.st, guard_call.backend, guard_call.subsystem)

\* C13: a guard call for the active (backend, subsystem) whose persisted Run
\* State is none of test_disable, find_max_bounds, bisect (absent or empty
\* included) ends in an error and returns no suppress decision.
C13_UnknownRunStateRaises ==
  (GuardCallActive /\ GuardCallRunState \notin RunStates)
    => guard_call.ret = "raise"


\* C14: a good or bad command issued while no Global Cursor is persisted
\* fails with the usage error, invokes no predicate and leaves the persisted
\* store empty.
C14_GoodBadWithoutStart ==
  [][(/\ pc = "idle"
      /\ ~bisect_status.exists
      /\ cli_interface'
      /\ command' \in { "good", "bad" }
      /\ pc' # "workload")
     =>
     (/\ ret'.kind = "ValueError"
      /\ pc' = "idle"
      /\ fn_count' = 0
      /\ probe_tick' = probe_tick
      /\ Store' = EmptyStore)]_vars

C14_Witness ==
  /\ ret.kind = "ValueError"
  /\ command \in { "good", "bad" }
  /\ pc = "idle"
  /\ Store = EmptyStore


\* C15: from any reachable persisted state, an end command that directly
\* follows a start command leaves no persisted record: no Global Cursor, no
\* Run State and no Range.
C15_StartThenEndLeavesNothing ==
  [][(/\ pc = "idle"
      /\ command = "start"
      /\ ret.kind = "exit0"
      /\ cli_interface'
      /\ command' = "end")
     =>
     (/\ ~bisect_status'.exists
      /\ DOMAIN run_state' = {}
      /\ DOMAIN bisect_range' = {})]_vars

C15_Witness ==
  /\ end_after_start
  /\ command = "end"
  /\ Store = EmptyStore
  /\ interrupted = FALSE


C17_FastPathChangesNothing ==
  (guard_call.called /\ ~GuardCallActive)
    =>
    /\ guard_call.ret = "False"
    /\ Store = guard_call.st
    /\ subsystem_call_counter = guard_call.ctr
    /\ call_counter_debug_info = guard_call.info

\* the call is for another subsystem of the cursor's backend, whose files
\* would make an active call write a Range
C17_Witness ==
  /\ guard_call.called
  /\ guard_call.enabled
  /\ get_backend(guard_call.st) = guard_call.backend
  /\ get_subsystem(guard_call.st) \notin { "", guard_call.subsystem }
  /\ GuardCallRunState = "find_max_bounds"
  /\ guard_call.ret = "False"
  /\ Store = guard_call.st


\* C18: at the start of every execution of the predicate fn(), for a
\* backend-level probe and for a probe in each Run State, in both modes,
\* every subsystem call counter is zero and the debug info cache is empty.
C18_CountersResetAtProbeStart ==
  [][(pc \notin { "fn", "pb_fn" } /\ pc' \in { "fn", "pb_fn" })
     =>
     (/\ \A name \in DOMAIN subsystem_call_counter' :
           subsystem_call_counter'[name] = 0
      /\ \A k \in Keys : CounterGet(subsystem_call_counter', k[2]) = 0
      /\ call_counter_debug_info' = {})]_vars

\* the second bisect probe of an in-process search is about to run
C18_Witness ==
  /\ pc = "pb_fn"
  /\ ~cli_interface
  /\ pb_run_state = "bisect"
  /\ last_probe.kind = "bisect"
  /\ decisions = << >>
  /\ subsystem_call_counter = EmptyMap
  /\ call_counter_debug_info = {}


CursorIndex(status) ==
  IF status.subsystem = "" THEN 0
  ELSE ListIndex(SubsystemsOf(status.backend), status.subsystem)

\* C19: in one in-process search the cursor's subsystem position never
\* moves backward within a backend, and a subsystem whose test_disable probe
\* returned false is not probed in test_disable again.
C19_NoReprobeInTestDisable ==
  [][/\ (/\ ~cli_interface
         /\ pc \in Running
         /\ bisect_status.exists
         /\ bisect_status'.exists
         /\ bisect_status'.backend = bisect_status.backend)
        => CursorIndex(bisect_status') >= CursorIndex(bisect_status)
     /\ (/\ ~cli_interface
         /\ pc = "pb_fn"
         /\ pb_run_state = "test_disable"
         /\ probe_tick' # probe_tick)
        => ~(/\ last_probe.kind = "test_disable"
             /\ ~last_probe.result
             /\ last_probe.backend = curr_backend
             /\ last_probe.subsystem = pb_subsystem)]_vars


CursorRunState ==
  get_run_state(Store, get_backend(Store), get_subsystem(Store))

\* C20: in every state reached from start, or from the start of an
\* in-process session, through probe steps, a (backend, subsystem) whose
\* persisted Run State is bisect has a persisted Range; so neither a guard
\* call nor a state-machine step in Run State bisect raises the
\* missing-Range error.
C20_BisectHasRange ==
  [][/\ \A k \in DOMAIN run_state' :
          run_state'[k] = "bisect" => k \in DOMAIN bisect_range'
     /\ (/\ pc = "pb_loop"
         /\ pc' # pc
         /\ get_run_state(Store, curr_backend, pb_subsystem) = "bisect")
        => ret'.kind # "RuntimeError"
     /\ (/\ pc = "pb_fn"
         /\ pb_run_state = "bisect"
         /\ probe_tick' # probe_tick)
        => ret'.kind # "RuntimeError"
     /\ (/\ Len(decisions') = Len(decisions) + 1
         /\ CursorRunState = "bisect")
        => decisions'[Len(decisions')] # "raise"]_vars

C20_Witness ==
  /\ pc = "pb_fn"
  /\ pb_run_state = "bisect"
  /\ ActiveKey \in DOMAIN run_state
  /\ run_state[ActiveKey] = "bisect"
  /\ ActiveKey \in DOMAIN bisect_range
  /\ ncalls = MaxCalls
  /\ Len(decisions) = ncalls
  /\ decisions[ncalls] = "True"

====
